---- MODULE Spec2Model ----
(***************************************************************************)
(* Verification model of the meditation-music generation pipeline:         *)
(*   - MusicGenerationService (provider registry, primary/fallback chain)  *)
(*   - the providers' generateMusic (DiffRhythm, AudioCraft, ElevenLabs)   *)
(***************************************************************************)
EXTENDS Integers, Sequences, FiniteSets, TLC

VARIABLES providers, primaryProvider, calls, pcall, hc, gw, pb, wav, ho, bus, ea, mp

svcVars == <<providers, primaryProvider, calls>>
\* the variables of the hosted-provider, gateway, prompt-builder and WAV models
extVars == <<hc, gw, pb, wav, ho, bus, ea, mp>>
\* the variables of the agent, message-bus and player models
agentVars == <<ho, bus, ea, mp>>
vars == <<providers, primaryProvider, calls, pcall, hc, gw, pb, wav, ho, bus, ea, mp>>

(***************************************************************************)
(* Bounds                                                                  *)
(***************************************************************************)
MaxCalls == 1

\* largest config.duration (seconds) a caller requests; 0 stands for an absent one
MaxRequestedDuration == 305

CallIds == 1..MaxCalls

(***************************************************************************)
(* MusicGenerationService                                                  *)
(***************************************************************************)
undefined == "undefined"

\* registry keys used by the callers of addProvider / setPreferredProvider
Names == {"diffrhythm", "audiocraft", "elevenlabs"}

\* the provider instance a caller registers under each key (its `name` field)
ObjOf(n) ==
  CASE n = "diffrhythm" -> "DiffRhythm"
    [] n = "audiocraft" -> "AudioCraft"
    [] n = "elevenlabs" -> "ElevenLabs Music"

ProviderObjs == {ObjOf(n) : n \in Names}

fallbackProvider == "audiocraft"

AllUnavailable == "All music generation providers are unavailable"

\* the error a provider's checkHealth / generateMusic rejects with
RawError(obj, op) == obj \o "." \o op \o " rejected"

HealthOutcomes == {"true", "false", "reject"}
GenOutcomes == {"resolve", "reject"}

NoResult == [kind |-> "none", val |-> "-"]

\* One activation of generateMusic.  pc is the await it is suspended at,
\* local the provider const of the current try block, log the provider
\* operations invoked and settled so far, result the settled promise.
\* startPrimary (this.primaryProvider when the call started) and mutated
\* (the pc at which setPreferredProvider first changed the preferred name
\* under the call) are history fields; no action reads them.
IdleCall ==
  [pc |-> "idle", local |-> undefined, log |-> <<>>, result |-> NoResult,
   startPrimary |-> undefined, mutated |-> "no"]

Ev(attempt, op, kind, target, val) ==
  [attempt |-> attempt, op |-> op, kind |-> kind, target |-> target, val |-> val]

Invoke(rec, attempt, op, target) ==
  [rec EXCEPT !.log = Append(@, Ev(attempt, op, "invoke", target, "-"))]

Settle(rec, attempt, op, target, val) ==
  [rec EXCEPT !.log = Append(@, Ev(attempt, op, "settle", target, val))]

\* the promise returned by generateMusic rejects with err
Throw(rec, err) ==
  [rec EXCEPT !.pc = "threw", !.result = [kind |-> "error", val |-> err]]

\* `return await provider.generateMusic(...)` resolved: value produced by obj
ReturnResult(rec, obj) ==
  [rec EXCEPT !.pc = "returned", !.result = [kind |-> "ok", val |-> obj]]

\* lines 61-72: second try block up to its first await, or the final throw
EnterFallback(rec) ==
  LET fb == providers[fallbackProvider] IN
  IF fb # undefined
    THEN [Invoke(rec, "fallback", "checkHealth", fb)
            EXCEPT !.pc = "fallbackHealth", !.local = fb]
    ELSE Throw(rec, AllUnavailable)

CatchPrimary_Rethrow(rec, err) == Throw(rec, err)

\* lines 57-59: the catch of the primary try block logs and falls through
CatchPrimary(rec, err) == EnterFallback(rec)

CatchFallback_Rethrow(rec, err) == Throw(rec, err)

\* lines 68-72: the catch of the fallback try block logs, then the final throw
CatchFallback(rec, err) == Throw(rec, AllUnavailable)

PrimaryGenTarget_Reread(rec) == providers[primaryProvider]

\* line 55: generateMusic is called on the local const read at line 52
PrimaryGenTarget(rec) == rec.local

PrimaryResolved_Continue(rec, obj) ==
  EnterFallback([rec EXCEPT !.result = [kind |-> "ok", val |-> obj]])

\* line 55: `return await` of the primary's result ends the call
PrimaryResolved(rec, obj) == ReturnResult(rec, obj)

Init_Service ==
  /\ providers = [n \in Names |-> undefined]
  /\ primaryProvider = "diffrhythm"
  /\ calls = [c \in CallIds |-> IdleCall]

AddProvider(name) ==
  /\ providers' = [providers EXCEPT ![name] = ObjOf(name)]
  /\ UNCHANGED <<primaryProvider, calls, pcall, extVars>>

InFlight(rec) == rec.pc \in {"primaryHealth", "primaryGen", "fallbackHealth", "fallbackGen"}

SetPreferredProvider(providerName) ==
  /\ IF providers[providerName] # undefined
       THEN /\ primaryProvider' = providerName
            /\ calls' = [c \in CallIds |->
                 IF InFlight(calls[c]) /\ providerName # primaryProvider
                      /\ calls[c].mutated = "no"
                   THEN [calls[c] EXCEPT !.mutated = calls[c].pc]
                   ELSE calls[c]]
       ELSE UNCHANGED <<primaryProvider, calls>>
  /\ UNCHANGED <<providers, pcall, extVars>>

\* generateMusic up to its first await (lines 47-53, or 47-64 when the
\* primary is not registered, or 47-72 when neither is)
GenerateMusic(c) ==
  /\ calls[c].pc = "idle"
  /\ LET p == providers[primaryProvider]
         rec0 == [IdleCall EXCEPT !.startPrimary = primaryProvider]
     IN calls' = [calls EXCEPT ![c] =
          IF p # undefined
            THEN [Invoke(rec0, "primary", "checkHealth", p)
                    EXCEPT !.pc = "primaryHealth", !.local = p]
            ELSE EnterFallback(rec0)]
  /\ UNCHANGED <<providers, primaryProvider, pcall, extVars>>

\* the primary's checkHealth promise settles (line 53)
PrimaryHealthSettled(c, o) ==
  /\ calls[c].pc = "primaryHealth"
  /\ LET rec == calls[c]
         r1 == Settle(rec, "primary", "checkHealth", rec.local, o)
     IN calls' = [calls EXCEPT ![c] =
          CASE o = "true" ->
                 [Invoke(r1, "primary", "generateMusic", PrimaryGenTarget(r1))
                    EXCEPT !.pc = "primaryGen"]
            [] o = "false" -> EnterFallback(r1)
            [] o = "reject" ->
                 CatchPrimary(r1, RawError(rec.local, "checkHealth"))]
  /\ UNCHANGED <<providers, primaryProvider, pcall, extVars>>

LastTarget(rec) == rec.log[Len(rec.log)].target

\* the primary's generateMusic promise settles (line 55)
PrimaryGenSettled(c, o) ==
  /\ calls[c].pc = "primaryGen"
  /\ LET rec == calls[c]
         t == LastTarget(rec)
         r1 == Settle(rec, "primary", "generateMusic", t, o)
     IN calls' = [calls EXCEPT ![c] =
          IF o = "resolve"
            THEN PrimaryResolved(r1, t)
            ELSE CatchPrimary(r1, RawError(t, "generateMusic"))]
  /\ UNCHANGED <<providers, primaryProvider, pcall, extVars>>

\* the fallback's checkHealth promise settles (line 64)
FallbackHealthSettled(c, o) ==
  /\ calls[c].pc = "fallbackHealth"
  /\ LET rec == calls[c]
         r1 == Settle(rec, "fallback", "checkHealth", rec.local, o)
     IN calls' = [calls EXCEPT ![c] =
          CASE o = "true" ->
                 [Invoke(r1, "fallback", "generateMusic", rec.local)
                    EXCEPT !.pc = "fallbackGen"]
            [] o = "false" -> Throw(r1, AllUnavailable)
            [] o = "reject" ->
                 CatchFallback(r1, RawError(rec.local, "checkHealth"))]
  /\ UNCHANGED <<providers, primaryProvider, pcall, extVars>>

\* the fallback's generateMusic promise settles (line 66)
FallbackGenSettled(c, o) ==
  /\ calls[c].pc = "fallbackGen"
  /\ LET rec == calls[c]
         r1 == Settle(rec, "fallback", "generateMusic", rec.local, o)
     IN calls' = [calls EXCEPT ![c] =
          IF o = "resolve"
            THEN ReturnResult(r1, rec.local)
            ELSE CatchFallback(r1, RawError(rec.local, "generateMusic"))]
  /\ UNCHANGED <<providers, primaryProvider, pcall, extVars>>

(***************************************************************************)
(* Providers: generateMusic of DiffRhythmProvider, AudioCraftProvider and  *)
(* ElevenLabsProvider.  A config.duration of 0 stands for a falsy one      *)
(* (absent or 0), which `config.duration || d` replaces by d.              *)
(***************************************************************************)
DiffRhythm_maxDuration == 285
AudioCraft_maxDuration == 30
ElevenLabs_maxDuration == 300
DiffRhythm_demoLimit == 120

maxDuration(p) ==
  CASE p = "DiffRhythm" -> DiffRhythm_maxDuration
    [] p = "AudioCraft" -> AudioCraft_maxDuration
    [] p = "ElevenLabs Music" -> ElevenLabs_maxDuration

Min(a, b) == IF a <= b THEN a ELSE b

\* JavaScript `x || d` on numbers
OrDefault(x, d) == IF x = 0 THEN d ELSE x

\* Math.ceil(a / b) for non-negative integers
CeilDiv(a, b) == (a + b - 1) \div b

Durations == 0..MaxRequestedDuration

\* audioContext.sampleRate is fixed by the audio device
SampleRates == {44100, 48000}

\* what supabase.functions.invoke('elevenlabs-music') hands back
ApiOutcomes == {"error", "audio", "noAudio", "throws"}

\* the elevenlabs-music function answers { audioData, format, duration } with
\* duration = the requested milliseconds / 1000
EdgeFunction_duration(ms) == ms \div 1000

createBuffer(numberOfChannels, length, sampleRate) ==
  [numberOfChannels |-> numberOfChannels, length |-> length, sampleRate |-> sampleRate]

\* the WAV blob behind the object URL: what the encoded file contains
bufferToBlob(buffer) ==
  [kind |-> "audio/wav", channels |-> buffer.numberOfChannels,
   frames |-> buffer.length, sampleRate |-> buffer.sampleRate]

OpaqueUrl(kind) == [kind |-> kind, channels |-> 0, frames |-> 0, sampleRate |-> 0]

Music(audioUrl, duration, format, model) ==
  [audioUrl |-> audioUrl, duration |-> duration, format |-> format, model |-> model]

NoMusic == Music(OpaqueUrl("none"), 0, "none", "none")

Resolved(m) == [status |-> "resolved", music |-> m, error |-> "-"]
Rejected(e) == [status |-> "rejected", music |-> NoMusic, error |-> e]
Pending == [status |-> "pending", music |-> NoMusic, error |-> "-"]

NoAudioContext == "ReferenceError: AudioContext is not defined"

DiffRhythm_generateWithAPI(d) ==
  Resolved(Music(OpaqueUrl("blob:meditation-track-diffrhythm.mp3"),
                 Min(OrDefault(d, 60), DiffRhythm_maxDuration), "mp3", "DiffRhythm-v1.2"))

DiffRhythm_generateDemo(d, sr, ctx) ==
  LET duration == Min(OrDefault(d, 60), DiffRhythm_demoLimit) IN
  IF ~ctx THEN Rejected(NoAudioContext)
  ELSE Resolved(Music(bufferToBlob(createBuffer(2, sr * duration, sr)),
                      duration, "wav", "DiffRhythm-Demo"))

DiffRhythm_generateMusic(d, apiKey, sr, ctx) ==
  IF apiKey THEN DiffRhythm_generateWithAPI(d) ELSE DiffRhythm_generateDemo(d, sr, ctx)

AudioCraft_segments(d) == CeilDiv(OrDefault(d, 30), AudioCraft_maxDuration)

AudioCraft_generateSingleSegment(d, sr, ctx) ==
  LET duration == Min(OrDefault(d, 30), AudioCraft_maxDuration) IN
  IF ~ctx THEN Rejected(NoAudioContext)
  ELSE Resolved(Music(bufferToBlob(createBuffer(2, sr * duration, sr)),
                      duration, "wav", "AudioCraft-Demo"))

\* duration of segment i (1-based) of `segments`, line 106
AudioCraft_segmentDuration(i, segments, totalDuration) ==
  IF i = segments
    THEN OrDefault(totalDuration % AudioCraft_maxDuration, AudioCraft_maxDuration)
    ELSE AudioCraft_maxDuration

combineAudioSegments(segs) == segs[1].audioUrl

\* lines 113-126, once Promise.all has resolved with segs
AudioCraft_segmentedResult(d, segs) ==
  Resolved(Music(combineAudioSegments(segs), OrDefault(d, 60), "wav", "AudioCraft-Segmented"))

ElevenLabs_generateDemo(d, sr, ctx) ==
  LET duration == OrDefault(d, 30) IN
  IF ~ctx THEN Rejected(NoAudioContext)
  ELSE Resolved(Music(bufferToBlob(createBuffer(2, sr * duration, sr)),
                      duration, "wav", "ElevenLabs-Demo"))

ElevenLabs_generateMusic(d, api, sr, ctx) ==
  LET dataDuration == EdgeFunction_duration(OrDefault(d, 30) * 1000) IN
  IF api = "audio"
    THEN Resolved(Music(OpaqueUrl("audio/mpeg"),
                        OrDefault(dataDuration, OrDefault(d, 30)), "audio/mpeg",
                        "ElevenLabs Music API"))
    ELSE ElevenLabs_generateDemo(d, sr, ctx)

ProviderInputs ==
  [pc : {"invoked"}, provider : ProviderObjs, duration : Durations,
   apiKey : BOOLEAN, sampleRate : SampleRates, audioContext : BOOLEAN,
   segs : {<<>>}, result : {Pending}]

\* DiffRhythmProvider.generateMusic settles
DiffRhythmGenerate ==
  /\ pcall.pc = "invoked" /\ pcall.provider = "DiffRhythm"
  /\ pcall' = [pcall EXCEPT !.pc = "done",
       !.result = DiffRhythm_generateMusic(pcall.duration, pcall.apiKey,
                                           pcall.sampleRate, pcall.audioContext)]
  /\ UNCHANGED <<svcVars, extVars>>

\* AudioCraftProvider.generateMusic with one segment settles
AudioCraftSingle ==
  /\ pcall.pc = "invoked" /\ pcall.provider = "AudioCraft"
  /\ AudioCraft_segments(pcall.duration) <= 1
  /\ pcall' = [pcall EXCEPT !.pc = "done",
       !.result = AudioCraft_generateSingleSegment(pcall.duration, pcall.sampleRate,
                                                   pcall.audioContext)]
  /\ UNCHANGED <<svcVars, extVars>>

\* generateSegmentedMusic: the next segment's generateSingleSegment settles
\* (equal timers fire in creation order); a rejection rejects Promise.all
AudioCraftSegmentDone ==
  /\ pcall.pc = "invoked" /\ pcall.provider = "AudioCraft"
  /\ LET n == AudioCraft_segments(pcall.duration)
         i == Len(pcall.segs) + 1
         r == AudioCraft_generateSingleSegment(
                AudioCraft_segmentDuration(i, n, OrDefault(pcall.duration, 60)),
                pcall.sampleRate, pcall.audioContext)
     IN /\ n > 1
        /\ i <= n
        /\ pcall' = IF r.status = "rejected"
                      THEN [pcall EXCEPT !.pc = "done", !.result = r]
                      ELSE [pcall EXCEPT !.segs = Append(@, r.music)]
  /\ UNCHANGED <<svcVars, extVars>>

\* generateSegmentedMusic after Promise.all: combine and return
AudioCraftCombine ==
  /\ pcall.pc = "invoked" /\ pcall.provider = "AudioCraft"
  /\ AudioCraft_segments(pcall.duration) > 1
  /\ Len(pcall.segs) = AudioCraft_segments(pcall.duration)
  /\ pcall' = [pcall EXCEPT !.pc = "done",
       !.result = AudioCraft_segmentedResult(pcall.duration, pcall.segs)]
  /\ UNCHANGED <<svcVars, extVars>>

\* ElevenLabsProvider.generateMusic: the edge-function call settles, then
\* the API result or the demo fallback is returned
ElevenLabsGenerate(api) ==
  /\ pcall.pc = "invoked" /\ pcall.provider = "ElevenLabs Music"
  /\ pcall' = [pcall EXCEPT !.pc = "done",
       !.result = ElevenLabs_generateMusic(pcall.duration, api,
                                           pcall.sampleRate, pcall.audioContext)]
  /\ UNCHANGED <<svcVars, extVars>>

(***************************************************************************)
(* Properties of MusicGenerationService.generateMusic (checked under Spec) *)
(***************************************************************************)
Done(rec) == rec.pc \in {"returned", "threw"}

IsEv(e, attempt, op, kind) == e.attempt = attempt /\ e.op = op /\ e.kind = kind

GenInvokes(rec, target) ==
  {i \in DOMAIN rec.log : rec.log[i].op = "generateMusic" /\ rec.log[i].kind = "invoke"
                            /\ rec.log[i].target = target}

Has(rec, attempt, op, val) ==
  \E i \in DOMAIN rec.log : IsEv(rec.log[i], attempt, op, "settle") /\ rec.log[i].val = val

\* C1: when the registered primary's checkHealth resolves to false, that
\* provider's generateMusic is never invoked during the call, and the next
\* provider operation of the call, if any, is the fallback's checkHealth.
C1_UnhealthyPrimaryNeverGenerates ==
  \A c \in CallIds : \A i \in DOMAIN calls[c].log :
    LET log == calls[c].log IN
    (IsEv(log[i], "primary", "checkHealth", "settle") /\ log[i].val = "false")
      => /\ GenInvokes(calls[c], log[i].target) = {}
         /\ (i < Len(log) => IsEv(log[i+1], "fallback", "checkHealth", "invoke"))

\* C2: primary healthy but its generateMusic rejects, fallback healthy and its
\* generateMusic succeeds: the call resolves with the fallback's result and
\* the primary's generateMusic was invoked exactly once.
C2_FallbackAfterPrimaryRejectNoRetry ==
  \A c \in CallIds :
    LET rec == calls[c] IN
    (/\ Done(rec)
     /\ Has(rec, "primary", "checkHealth", "true")
     /\ Has(rec, "primary", "generateMusic", "reject")
     /\ Has(rec, "fallback", "checkHealth", "true")
     /\ Has(rec, "fallback", "generateMusic", "resolve"))
      => /\ rec.pc = "returned"
         /\ rec.result = [kind |-> "ok", val |-> ObjOf(fallbackProvider)]
         /\ Cardinality(GenInvokes(rec, ObjOf(rec.startPrimary))) = 1

NoAttemptYielded(rec) ==
  ~ \E i \in DOMAIN rec.log : rec.log[i].op = "generateMusic" /\ rec.log[i].val = "resolve"

RegistryEmpty == \A n \in Names : providers[n] = undefined

\* C3: when neither attempt yields a result the call fails with the terminal
\* all-providers-unavailable error, a failed call never carries a provider's
\* raw error, and a call started on an empty registry fails this way at once
\* without invoking any provider operation.
C3_AllUnavailableNeverRaw ==
  /\ [](\A c \in CallIds :
          /\ (Done(calls[c]) /\ NoAttemptYielded(calls[c]))
               => calls[c].pc = "threw"
          /\ calls[c].pc = "threw"
               => calls[c].result = [kind |-> "error", val |-> AllUnavailable])
  /\ [][\A c \in CallIds :
          (calls[c].pc = "idle" /\ calls'[c].pc # "idle" /\ RegistryEmpty)
            => /\ calls'[c].pc = "threw"
               /\ calls'[c].result = [kind |-> "error", val |-> AllUnavailable]
               /\ calls'[c].log = <<>>]_vars

\* a call in which both providers' generateMusic rejected has failed
C3_Witness ==
  \E c \in CallIds :
    /\ calls[c].pc = "threw"
    /\ Has(calls[c], "primary", "generateMusic", "reject")
    /\ Has(calls[c], "fallback", "generateMusic", "reject")

\* C4: the two attempts of a call are strictly sequential: every fallback
\* operation comes after all primary operations, none is invoked while a
\* primary operation is unsettled or after the primary's generateMusic
\* resolved, and at most one generateMusic resolves in a call.
C4_AttemptsSequential ==
  \A c \in CallIds :
    LET log == calls[c].log IN
    /\ \A i \in DOMAIN log : log[i].attempt = "fallback" =>
         /\ \A j \in DOMAIN log : log[j].attempt = "primary" => j < i
         /\ \A j \in 1..(i-1) : (log[j].attempt = "primary" /\ log[j].kind = "invoke")
              => (j + 1 < i /\ log[j+1].kind = "settle" /\ log[j+1].op = log[j].op
                    /\ log[j+1].attempt = "primary")
         /\ ~ \E j \in 1..(i-1) :
                IsEv(log[j], "primary", "generateMusic", "settle") /\ log[j].val = "resolve"
    /\ Cardinality({i \in DOMAIN log : log[i].op = "generateMusic"
                                         /\ log[i].val = "resolve"}) <= 1

\* the fallback's generateMusic was invoked after the primary's rejected
C4_Witness ==
  \E c \in CallIds :
    /\ calls[c].pc = "fallbackGen"
    /\ Has(calls[c], "primary", "generateMusic", "reject")

\* C5: a single call never invokes the same provider's generateMusic more
\* than once.
C5_NoProviderTriedTwice ==
  \A c \in CallIds : \A t \in ProviderObjs : Cardinality(GenInvokes(calls[c], t)) <= 1

\* C6: the providers a call attempts are those fixed when it started: the
\* primary attempt targets the provider preferred at the start of the call,
\* the fallback attempt the fixed fallback, in that order, whatever
\* setPreferredProvider does while the call is in flight.
C6_InFlightCallUnaffected ==
  \A c \in CallIds :
    LET rec == calls[c] IN
    \A i \in DOMAIN rec.log :
      /\ rec.log[i].attempt = "primary" => rec.log[i].target = ObjOf(rec.startPrimary)
      /\ rec.log[i].attempt = "fallback" =>
           /\ rec.log[i].target = ObjOf(fallbackProvider)
           /\ \A j \in DOMAIN rec.log : rec.log[j].attempt = "primary" => j < i

\* the preferred provider changed while the call awaited the primary's
\* checkHealth, and the call then invoked the primary's generateMusic
C6_Witness ==
  \E c \in CallIds :
    /\ calls[c].mutated = "primaryHealth"
    /\ calls[c].startPrimary # primaryProvider
    /\ \E i \in DOMAIN calls[c].log : IsEv(calls[c].log[i], "primary", "generateMusic", "invoke")

\* C10: a rejected checkHealth is never fatal: after the primary's the call
\* goes on to the fallback attempt (or, the fallback being unregistered, to
\* the all-providers-unavailable error), after the fallback's it fails with
\* the all-providers-unavailable error; the rejection never reaches the caller.
C10_HealthRejectionNotFatal ==
  \A c \in CallIds :
    LET rec == calls[c]
        log == rec.log IN
    /\ \A i \in DOMAIN log :
         (log[i].op = "checkHealth" /\ log[i].val = "reject") =>
           IF log[i].attempt = "primary"
             THEN IF i < Len(log)
                    THEN IsEv(log[i+1], "fallback", "checkHealth", "invoke")
                    ELSE /\ rec.pc = "threw"
                         /\ rec.result = [kind |-> "error", val |-> AllUnavailable]
             ELSE /\ i = Len(log)
                  /\ rec.result = [kind |-> "error", val |-> AllUnavailable]
    /\ \A t \in ProviderObjs : rec.result.val # RawError(t, "checkHealth")

\* the primary's checkHealth rejected and the call still returned the
\* fallback's result
C10_Witness ==
  \E c \in CallIds :
    /\ calls[c].pc = "returned"
    /\ Has(calls[c], "primary", "checkHealth", "reject")
    /\ Has(calls[c], "fallback", "generateMusic", "resolve")

(***************************************************************************)
(* Properties of the providers' generateMusic (checked under ProviderSpec) *)
(***************************************************************************)
Succeeded == pcall.pc = "done" /\ pcall.result.status = "resolved"

\* C7: every successfully returned GeneratedMusic has
\* duration <= the producing provider's maxDuration.
C7_DurationWithinMax ==
  Succeeded => pcall.result.music.duration <= maxDuration(pcall.provider)

\* C8: with a given config.duration, the returned duration equals
\* min(config.duration, provider.maxDuration).
C8_DurationClampedExactly ==
  (Succeeded /\ pcall.duration > 0)
    => pcall.result.music.duration = Min(pcall.duration, maxDuration(pcall.provider))

RECURSIVE TotalFrames(_)
TotalFrames(segs) ==
  IF segs = <<>> THEN 0 ELSE segs[1].audioUrl.frames + TotalFrames(Tail(segs))

\* C9: a request longer than one AudioCraft segment is never answered with
\* audio holding only the first segment: a resolved multi-segment call
\* returns audio covering all generated segments.
C9_NoSilentTruncation ==
  (Succeeded /\ pcall.provider = "AudioCraft"
     /\ pcall.duration > AudioCraft_maxDuration)
    => pcall.result.music.audioUrl.frames = TotalFrames(pcall.segs)

\* C21: the audio of every synthetic tone result (format 'wav') has 2
\* channels and duration * sampleRate frames per channel, duration being the
\* one the result declares.
C21_ToneFramesMatchDuration ==
  (Succeeded /\ pcall.result.music.format = "wav")
    => /\ pcall.result.music.audioUrl.channels = 2
       /\ pcall.result.music.audioUrl.frames
            = pcall.result.music.duration * pcall.sampleRate

(***************************************************************************)
(* Hosted provider: ElevenLabsOnlyProvider ('ElevenLabs') and              *)
(* ElevenLabsProvider ('ElevenLabs Music') against the elevenlabs-music    *)
(* edge function, which calls api.elevenlabs.io with ELEVENLABS_API_KEY.   *)
(***************************************************************************)
HostedProviders == {"ElevenLabs", "ElevenLabs Music"}
HostedOps == {"checkHealth", "generateMusic"}

\* the success body of the deployed function: JSON with a storage URL, the
\* raw audio/mpeg stream, or JSON with base64 audioData
EdgeVariants == {"stored-json", "raw-audio", "audio-data"}

\* how api.elevenlabs.io answers the function's fetch
UpstreamOutcomes == {"200", "401", "429", "500", "rejects"}

Err(name, message) == [name |-> name, kind |-> "-", message |-> message]
NoErr == Err("-", "-")

HttpResponse(status, body, error) == [status |-> status, body |-> body, error |-> error]
NoResponse == HttpResponse(0, "-", "-")

\* the catch of the function: status 500 and { error: error.message }
EdgeError(message) == HttpResponse(500, "json", message)

HostedResult(status, value, error) == [status |-> status, value |-> value, error |-> error]

HostedInputs ==
  [pc : {"start"}, provider : HostedProviders, op : HostedOps,
   keyConfigured : BOOLEAN, variant : EdgeVariants,
   transport : {"ok", "rejects"}, invokeThrows : BOOLEAN, audioContext : BOOLEAN,
   edgeRequests : {0}, apiRequests : {0}, response : {NoResponse},
   result : {HostedResult("pending", "-", NoErr)}]

hostedRest == <<svcVars, pcall, gw, pb, wav, agentVars>>

\* ElevenLabsProvider.checkHealth: `return true`, no request at all
HostedHealthConstant ==
  /\ hc.pc = "start" /\ hc.provider = "ElevenLabs Music" /\ hc.op = "checkHealth"
  /\ hc' = [hc EXCEPT !.pc = "done", !.result = HostedResult("resolved", "true", NoErr)]
  /\ UNCHANGED hostedRest

\* the provider sends its one request to the edge function
\* (ElevenLabsOnlyProvider lines 41 and 59, ElevenLabsProvider line 26)
HostedInvoke ==
  /\ hc.pc = "start"
  /\ ~(hc.provider = "ElevenLabs Music" /\ hc.op = "checkHealth")
  /\ hc' = [hc EXCEPT !.edgeRequests = @ + 1,
                      !.pc = IF hc.transport = "ok" THEN "inEdge" ELSE "edgeSettled"]
  /\ UNCHANGED hostedRest

\* the edge function up to its fetch: key check, health-check branch (absent
\* from the audioData variant), prompt check (the providers' generation
\* prompts are never blank)
EdgeHandle ==
  /\ hc.pc = "inEdge"
  /\ hc' =
       IF ~hc.keyConfigured
         THEN [hc EXCEPT !.pc = "edgeSettled",
                         !.response = EdgeError("ElevenLabs API key not configured")]
       ELSE IF hc.op = "checkHealth" /\ hc.variant # "audio-data"
         THEN [hc EXCEPT !.pc = "edgeSettled",
                         !.response = HttpResponse(200, "json", "-")]
       ELSE [hc EXCEPT !.pc = "inApi", !.apiRequests = @ + 1]
  /\ UNCHANGED hostedRest

\* the edge function after its fetch to api.elevenlabs.io settled
EdgeAfterFetch(o, uploadOk, variant) ==
  IF o = "rejects" THEN EdgeError("fetch failed")
  ELSE IF o # "200" THEN EdgeError("ElevenLabs API error: " \o o)
  ELSE IF variant = "raw-audio" THEN HttpResponse(200, "audio/mpeg", "-")
  ELSE IF variant = "audio-data" THEN HttpResponse(200, "json-audioData", "-")
  ELSE IF ~uploadOk THEN EdgeError("Failed to store audio file")
  ELSE HttpResponse(200, "json-success", "-")

ApiRespond(o, uploadOk) ==
  /\ hc.pc = "inApi"
  /\ hc' = [hc EXCEPT !.pc = "edgeSettled",
                      !.response = EdgeAfterFetch(o, uploadOk, hc.variant)]
  /\ UNCHANGED hostedRest

HostedOnly_OnNotOk_Retry(h) == [h EXCEPT !.pc = "start", !.response = NoResponse]

\* ElevenLabsOnlyProvider.generateMusic lines 71-75 and 106-109: a non-2xx
\* answer throws a plain Error, which the catch re-throws
HostedOnly_OnNotOk(h) ==
  [h EXCEPT !.pc = "done",
            !.result = HostedResult("rejected", "-",
                         Err("Error", "ElevenLabs API error: " \o h.response.error))]

\* ElevenLabsOnlyProvider.generateMusic once its fetch settled (lines 57-109)
HostedOnly_generateMusic(h) ==
  IF h.transport = "rejects"
    THEN [h EXCEPT !.pc = "done",
            !.result = HostedResult("rejected", "-", Err("TypeError", "Failed to fetch"))]
  ELSE IF h.response.status # 200 THEN HostedOnly_OnNotOk(h)
  ELSE IF h.response.body = "audio/mpeg"
    THEN [h EXCEPT !.pc = "done",
            !.result = HostedResult("rejected", "-", Err("SyntaxError", "Unexpected token"))]
  ELSE IF h.response.body # "json-success"
    THEN [h EXCEPT !.pc = "done",
            !.result = HostedResult("rejected", "-", Err("Error", "Music generation failed"))]
  ELSE [h EXCEPT !.pc = "done", !.result = HostedResult("resolved", "music", NoErr)]

\* ElevenLabsOnlyProvider.checkHealth once invoke settled (lines 39-49):
\* true whatever invoke returned, false only if invoke itself threw
HostedOnly_checkHealth(h) ==
  [h EXCEPT !.pc = "done",
     !.result = HostedResult("resolved",
                  IF h.transport = "rejects" /\ h.invokeThrows THEN "false" ELSE "true",
                  NoErr)]

\* ElevenLabsProvider.generateMusic once invoke settled (lines 24-63): an
\* error or an answer without audioData ends in generateDemo
Hosted_generateMusic(h) ==
  LET api == IF h.transport = "rejects"
               THEN (IF h.invokeThrows THEN "throws" ELSE "error")
             ELSE IF h.response.status # 200 THEN "error"
             ELSE IF h.response.body = "json-audioData" THEN "audio"
             ELSE "noAudio"
      r == ElevenLabs_generateMusic(30, api, 44100, h.audioContext)
  IN [h EXCEPT !.pc = "done",
        !.result = IF r.status = "resolved"
                     THEN HostedResult("resolved", "music", NoErr)
                     ELSE HostedResult("rejected", "-", Err("ReferenceError", r.error))]

HostedSettle ==
  /\ hc.pc = "edgeSettled"
  /\ hc' = CASE hc.provider = "ElevenLabs" /\ hc.op = "generateMusic" ->
                  HostedOnly_generateMusic(hc)
             [] hc.provider = "ElevenLabs" /\ hc.op = "checkHealth" ->
                  HostedOnly_checkHealth(hc)
             [] OTHER -> Hosted_generateMusic(hc)
  /\ UNCHANGED hostedRest

Next_Hosted ==
  \/ HostedHealthConstant
  \/ HostedInvoke
  \/ EdgeHandle
  \/ \E o \in UpstreamOutcomes, u \in BOOLEAN : ApiRespond(o, u)
  \/ HostedSettle

(***************************************************************************)
(* Properties of the hosted providers (checked under HostedSpec)           *)
(***************************************************************************)
\* C11: with ELEVENLABS_API_KEY not configured, the hosted provider's
\* checkHealth reports unhealthy.
C11_MissingKeyUnhealthy ==
  (hc.pc = "done" /\ hc.op = "checkHealth" /\ ~hc.keyConfigured)
    => hc.result.value = "false"

\* C12: a hosted provider's generateMusic fails only with a ProviderError
\* whose kind is one of the five kinds; transport exceptions and non-2xx
\* answers are never handed to the caller as they are.
C12_FailsWithProviderError ==
  (hc.pc = "done" /\ hc.op = "generateMusic" /\ hc.result.status = "rejected")
    => /\ hc.result.error.name = "ProviderError"
       /\ hc.result.error.kind \in {"AuthenticationFailed", "QuotaExceeded",
                                      "UpstreamUnavailable", "InvalidRequest", "Timeout"}

\* C13: one generateMusic of a hosted provider issues at most one request to
\* the edge function, which issues at most one request to the music API,
\* whatever the outcome.
C13_NoInternalRetry ==
  (hc.pc # "idle" /\ hc.op = "generateMusic")
    => (hc.edgeRequests <= 1 /\ hc.apiRequests <= 1)

\* a generateMusic that failed on an upstream error status after its one request
C13_Witness ==
  /\ hc.pc = "done" /\ hc.op = "generateMusic"
  /\ hc.result.status = "rejected"
  /\ hc.response.status = 500
  /\ hc.edgeRequests = 1 /\ hc.apiRequests = 1

(***************************************************************************)
(* Agent gateway: POST /agents/music-generator of the agents edge function *)
(* (supabase/functions/agents/index.ts; the agents-v2 copy is the same).   *)
(***************************************************************************)
\* the X-API-Key header: absent, empty, naming no row, naming a row with
\* is_active = false, naming an active row
ApiKeys == {"missing", "empty", "unknown", "inactive", "valid"}

\* `if (apiKey)`: null and '' are falsy
KeyPresent(k) == k \notin {"missing", "empty"}

\* .eq('api_key', apiKey).eq('is_active', true).single() finds a row
KeyRowFound(k) == k = "valid"

\* the request body: not JSON, JSON null, an object without prompt, an
\* object with prompt '', an object with a non-empty prompt
Bodies == {"unparsable", "null", "noPrompt", "emptyPrompt", "text"}

\* a JSON response body: its status field and its error field ("-" = absent)
JsonBody(statusField, errorField) == [json |-> TRUE, status |-> statusField, error |-> errorField]

GwResponse(code, body) == [status |-> code, body |-> body]
NoGwResponse == GwResponse(0, JsonBody("-", "-"))

\* every answer the elevenlabs-music function can give to the gateway's fetch
EdgeResponses ==
  {EdgeError("ElevenLabs API key not configured")}
    \cup {EdgeAfterFetch(o, u, v) : o \in UpstreamOutcomes, u \in BOOLEAN, v \in EdgeVariants}

\* musicResponse.json(): the parsed body of the function's answer
ParsedBody(r) ==
  IF r.status # 200 THEN JsonBody("-", r.error)
  ELSE IF r.body = "json-success" THEN JsonBody("success", "-")
  ELSE JsonBody("-", "-")

\* the outer catch: 500 and { error: error.message, status: 'error' }
GwCatch(message) == GwResponse(500, JsonBody("error", message))

GatewayInputs ==
  [pc : {"start"}, apiKey : ApiKeys, body : Bodies,
   lastUsedUpdated : {FALSE}, forwarded : {0}, upstream : {NoResponse},
   usageLog : {<<>>}, response : {NoGwResponse}]

gatewayRest == <<svcVars, pcall, hc, pb, wav, agentVars>>

\* lines 197-218: key lookup (only when a key is present), 401, last_used
ValidateApiKey ==
  /\ gw.pc = "start"
  /\ gw' = IF KeyPresent(gw.apiKey) /\ ~KeyRowFound(gw.apiKey)
             THEN [gw EXCEPT !.pc = "responded",
                     !.response = GwResponse(401, JsonBody("-", "Invalid or inactive API key"))]
           ELSE [gw EXCEPT !.pc = "parse",
                           !.lastUsedUpdated = KeyPresent(gw.apiKey)]
  /\ UNCHANGED gatewayRest

ValidateBody_Unchecked(g) == [g EXCEPT !.pc = "forward"]

\* lines 220-233: req.json() and the prompt check
ValidateBody(g) ==
  IF g.body = "unparsable"
    THEN [g EXCEPT !.pc = "responded", !.response = GwCatch("Unexpected token")]
  ELSE IF g.body = "null"
    THEN [g EXCEPT !.pc = "responded",
                   !.response = GwCatch("Cannot read properties of null")]
  ELSE IF g.body \in {"noPrompt", "emptyPrompt"}
    THEN [g EXCEPT !.pc = "responded",
            !.response = GwResponse(400, JsonBody("error", "Missing required field: prompt"))]
  ELSE [g EXCEPT !.pc = "forward"]

ParseBody ==
  /\ gw.pc = "parse"
  /\ gw' = ValidateBody(gw)
  /\ UNCHANGED gatewayRest

\* lines 235-252: the fetch to elevenlabs-music and musicResponse.json()
Forward(r, fetchOk) ==
  /\ gw.pc = "forward"
  /\ gw' = IF ~fetchOk
             THEN [gw EXCEPT !.forwarded = @ + 1, !.pc = "responded",
                             !.response = GwCatch("fetch failed")]
           ELSE IF r.status = 200 /\ r.body = "audio/mpeg"
             THEN [gw EXCEPT !.forwarded = @ + 1, !.upstream = r, !.pc = "responded",
                             !.response = GwCatch("Unexpected token")]
           ELSE [gw EXCEPT !.forwarded = @ + 1, !.upstream = r, !.pc = "log"]
  /\ UNCHANGED gatewayRest

\* lines 255-276: the usage-log row, written when a key was sent and its row
\* is found again, then the relayed answer (lines 278-281)
LogAndRelay ==
  /\ gw.pc = "log"
  /\ gw' = [gw EXCEPT
              !.usageLog = IF KeyPresent(gw.apiKey)
                             THEN Append(@, [status_code |-> gw.upstream.status])
                             ELSE @,
              !.pc = "responded",
              !.response = GwResponse(gw.upstream.status, ParsedBody(gw.upstream))]
  /\ UNCHANGED gatewayRest

Next_Gateway ==
  \/ ValidateApiKey
  \/ ParseBody
  \/ \E r \in EdgeResponses, ok \in BOOLEAN : Forward(r, ok)
  \/ LogAndRelay

(***************************************************************************)
(* Properties of the gateway (checked under GatewaySpec)                   *)
(***************************************************************************)
\* C14: a request whose X-API-Key is missing, unknown or inactive is
\* answered 401 and is never forwarded to music generation.
C14_BadKeyRejected ==
  (gw.pc # "idle" /\ gw.apiKey \in {"missing", "empty", "unknown", "inactive"})
    => /\ gw.forwarded = 0
       /\ gw.pc = "responded" => gw.response.status = 401

\* C15 as stated: a body without prompt is answered 400 with status "error",
\* without an upstream call and without a usage-log row.
C15_Original_NoPrompt400 ==
  (gw.pc = "responded" /\ gw.body \in {"noPrompt", "emptyPrompt"})
    => /\ gw.response.status = 400
       /\ gw.response.body.status = "error"
       /\ gw.forwarded = 0
       /\ gw.usageLog = <<>>

\* C15, amended: a request that is not rejected for its API key (no key sent,
\* or an active key) and whose JSON object body has no prompt is answered 400
\* with status "error", and no request with such a body causes an upstream
\* call or a usage-log row.
C15_NoPrompt400 ==
  (gw.pc # "idle" /\ gw.body \in {"noPrompt", "emptyPrompt"})
    => /\ gw.forwarded = 0
       /\ gw.usageLog = <<>>
       /\ (gw.pc = "responded" /\ (~KeyPresent(gw.apiKey) \/ KeyRowFound(gw.apiKey)))
            => (gw.response.status = 400 /\ gw.response.body.status = "error")

\* an active key's request without prompt has been answered
C15_Witness ==
  /\ gw.pc = "responded" /\ gw.apiKey = "valid" /\ gw.body = "noPrompt"
  /\ gw.lastUsedUpdated
  /\ gw.response.status = 400

\* C16: every failure response is JSON with status "error" and a string
\* error, and its HTTP status is 400, 401 or 500.
C16_FailureShape ==
  (gw.pc = "responded" /\ gw.response.status >= 400)
    => /\ gw.response.body.json
       /\ gw.response.body.status = "error"
       /\ gw.response.body.error # "-"
       /\ gw.response.status \in {400, 401, 500}

\* C30: a request with a valid active key that was forwarded upstream has
\* written exactly one agent_usage_logs row whose status_code is the HTTP
\* status returned to the caller; requests without a key and requests the
\* gateway rejected with 400 or 401 have written no row.
C30_UsageLogged ==
  gw.pc = "responded" =>
    /\ (gw.apiKey = "valid" /\ gw.forwarded > 0)
         => /\ Len(gw.usageLog) = 1
            /\ gw.usageLog[1].status_code = gw.response.status
    /\ (~KeyPresent(gw.apiKey) \/ (gw.forwarded = 0 /\ gw.response.status \in {400, 401}))
         => gw.usageLog = <<>>

\* the part of C30 that the code keeps: when the upstream answer could be
\* parsed and was relayed, a valid key's request has exactly one row with the
\* relayed status, and no other request has a row
C30_LoggedWhenRelayed ==
  gw.pc = "responded" =>
    IF gw.apiKey = "valid" /\ gw.forwarded > 0 /\ gw.response.status = gw.upstream.status
         /\ gw.response.body = ParsedBody(gw.upstream)
      THEN gw.usageLog = <<[status_code |-> gw.response.status]>>
      ELSE gw.usageLog = <<>>

(***************************************************************************)
(* Prompt builders: EnhancedCoralProtocolAgent.generateTherapeuticPrompt,  *)
(* ElevenLabsOnlyProvider.optimizePrompt,                                  *)
(* ElevenLabsProvider.optimizePromptForElevenLabs,                         *)
(* CoralProtocolAgent.processRequest, and the config that                  *)
(* EnhancedMusicGenerationAgent.generateEnhancedMusic hands to the service.*)
(* A prompt is the sequence of the clauses the code appends.               *)
(***************************************************************************)
MaxClock == 1

\* config.tempo: undefined, a string, or a number
TempoAbsent == [type |-> "undefined", text |-> "", num |-> 0]
TempoText(s) == [type |-> "string", text |-> s, num |-> 0]
TempoNum(n) == [type |-> "number", text |-> "", num |-> n]

Tempos ==
  {TempoAbsent, TempoNum(72)}
    \cup {TempoText(s) : s \in {"slow", "medium", "fast", "Slow", "allegro"}}

\* JavaScript truthiness of config.tempo
TempoTruthy(t) ==
  \/ t.type = "string" /\ t.text # ""
  \/ t.type = "number" /\ t.num # 0

\* what template interpolation prints for config.tempo
TempoString(t) ==
  IF t.type = "number" THEN ToString(t.num)
  ELSE IF t.type = "string" THEN t.text
  ELSE "undefined"

toLowerCase(s) == IF s = "Slow" THEN "slow" ELSE s

trim(s) == IF s = " soft piano " THEN "soft piano" ELSE s

\* the words request.includes(...) looks for, per user text
Keywords(text) ==
  IF text = "Relieve stress before sleep" THEN {"stress", "sleep"} ELSE {}

includes(text, word) == word \in Keywords(toLowerCase(text))

UserTexts == {"Create calming music", "Relieve stress before sleep", " soft piano "}

Configs ==
  [tempo : Tempos, style : {"", "ambient"}, mood : {"", "Calm"},
   instruments : {<<>>, <<"piano", "flute">>}, duration : {0, 5},
   key : {"", "C minor"}, binaural : BOOLEAN, frequency : {0, 40}]

RECURSIVE join(_)
\* Array.prototype.join(', ')
join(items) ==
  IF Len(items) = 0 THEN ""
  ELSE IF Len(items) = 1 THEN items[1]
  ELSE items[1] \o ", " \o join(Tail(items))

Clause(kind, value) == [kind |-> kind, value |-> value]

\* `if (cond) prompt += clause`
When(cond, clause) == IF cond THEN <<clause>> ELSE <<>>

Returned(clauses) == [status |-> "returned", clauses |-> clauses]
Threw(message) == [status |-> "threw", clauses |-> <<Clause("error", message)>>]
NoOutput == [status |-> "none", clauses |-> <<>>]

\* EnhancedMusicGenerationAgent.convertTempoToBPM
convertTempoToBPM(tempo) ==
  IF tempo.type = "string" /\ tempo.text = "slow" THEN 70
  ELSE IF tempo.type = "string" /\ tempo.text = "medium" THEN 90
  ELSE IF tempo.type = "string" /\ tempo.text = "fast" THEN 110
  ELSE 80

\* tempoMap[...] of the providers; 0 stands for a missing key (undefined)
tempoMap(text) ==
  CASE text = "very slow" -> 60
    [] text = "slow" -> 70
    [] text = "moderate" -> 90
    [] text = "medium" -> 110
    [] text = "fast" -> 130
    [] text = "very fast" -> 150
    [] OTHER -> 0

\* ElevenLabsOnlyProvider.convertTempoToBPM
ElevenLabsOnly_convertTempoToBPM(tempo) ==
  IF tempo.type = "number" THEN tempo.num
  ELSE OrDefault(tempoMap(toLowerCase(tempo.text)), 90)

\* ElevenLabsProvider.convertTempoToBPM (the same table)
ElevenLabs_convertTempoToBPM(tempo) ==
  IF tempo.type = "number" THEN tempo.num
  ELSE OrDefault(tempoMap(toLowerCase(tempo.text)), 90)

\* the BPM text of generateTherapeuticPrompt
Therapeutic_bpm(tempo) ==
  IF tempo.type = "string" /\ tempo.text = "slow" THEN "60-80"
  ELSE IF tempo.type = "string" /\ tempo.text = "medium" THEN "80-100"
  ELSE "100-120"

\* EnhancedCoralProtocolAgent.extractTherapeuticElements, the two elements
\* the prompt depends on
extractTherapeuticElements(userRequest) ==
  (IF includes(userRequest, "stress") \/ includes(userRequest, "anxiety")
     THEN {"stress-reduction"} ELSE {})
  \cup (IF includes(userRequest, "sleep") \/ includes(userRequest, "insomnia")
          THEN {"sleep-induction"} ELSE {})

generateTherapeuticPrompt(userRequest, config, therapeuticElements) ==
  <<Clause("base", userRequest)>>
  \o <<Clause("duration", ToString(OrDefault(config.duration, 10)))>>
  \o When(Len(config.instruments) > 0, Clause("instruments", join(config.instruments)))
  \o When(config.mood # "", Clause("mood", config.mood))
  \o When(TempoTruthy(config.tempo), Clause("tempo", Therapeutic_bpm(config.tempo)))
  \o When(config.style # "", Clause("style", config.style))
  \o When("stress-reduction" \in therapeuticElements, Clause("therapeutic", "432Hz tuning"))
  \o When("sleep-induction" \in therapeuticElements, Clause("therapeutic", "slowing rhythm"))
  \o When(config.binaural /\ config.frequency # 0,
          Clause("binaural", ToString(config.frequency)))

\* ElevenLabsOnlyProvider.optimizePrompt
optimizePrompt(prompt, config) ==
  <<Clause("base", trim(prompt))>>
  \o When(TempoTruthy(config.tempo),
          Clause("tempo", ToString(ElevenLabsOnly_convertTempoToBPM(config.tempo))))
  \o When(config.style # "", Clause("style", config.style))
  \o When(config.mood # "", Clause("mood", config.mood))
  \o When(Len(config.instruments) > 0, Clause("instruments", join(config.instruments)))
  \o <<Clause("duration", ToString(OrDefault(config.duration, 30)))>>
  \o When(config.key # "", Clause("key", config.key))
  \o <<Clause("quality", "High quality professional music production")>>

\* ElevenLabsProvider.optimizePromptForElevenLabs
optimizePromptForElevenLabs(prompt, config) ==
  <<Clause("base", prompt)>>
  \o When(TempoTruthy(config.tempo),
          Clause("tempo", ToString(ElevenLabs_convertTempoToBPM(config.tempo))))
  \o When(config.style # "", Clause("style", config.style))
  \o When(config.mood # "", Clause("mood", config.mood))
  \o When(Len(config.instruments) > 0, Clause("instruments", join(config.instruments)))
  \o When(config.duration # 0, Clause("duration", ToString(config.duration)))
  \o When(config.key # "", Clause("key", config.key))

\* CoralProtocolAgent.processRequest: the template's interpolations in order
Coral_processRequest(userRequest, config, isRegistered, now) ==
  IF ~isRegistered THEN Threw("Agent not registered with Coral Protocol")
  ELSE Returned(
    << Clause("duration", ToString(config.duration)),
       Clause("key", config.key),
       Clause("tempo", TempoString(config.tempo)),
       Clause("mood", toLowerCase(config.mood)),
       Clause("instruments",
              IF Len(config.instruments) > 0 THEN join(config.instruments)
              ELSE "soft ambient pads, gentle nature sounds"),
       Clause("base", userRequest),
       Clause("messageId", "msg-" \o ToString(now)),
       Clause("timestamp", ToString(now)) >>)

\* the config generateEnhancedMusic passes to musicService.generateMusic
Enhanced_serviceConfig(config) ==
  << Clause("duration", ToString(config.duration * 60)),
     Clause("style", config.style),
     Clause("mood", config.mood),
     Clause("tempo", ToString(convertTempoToBPM(config.tempo))),
     Clause("instruments", join(config.instruments)) >>

PromptBuilders ==
  {"generateTherapeuticPrompt", "optimizePrompt", "optimizePromptForElevenLabs",
   "CoralProtocolAgent.processRequest"}

Builders == PromptBuilders \cup {"generateEnhancedMusic"}

PromptInputs ==
  [pc : {"start"}, builder : Builders, userText : UserTexts, config : Configs,
   isRegistered : {FALSE}, promptsGenerated : {0}, clock : {0},
   bpm : {"-"}, out1 : {NoOutput}, out2 : {NoOutput}]

promptRest == <<svcVars, pcall, hc, gw, wav, agentVars>>

\* the BPM a tempo conversion produced, "-" when none was made
Converted(cond, bpm) == IF cond THEN bpm ELSE "-"

\* one invocation finished: its output is the first or the second one
Invoked(p, out, bpm) ==
  IF p.pc = "start"
    THEN [p EXCEPT !.pc = "built1", !.out1 = out, !.bpm = bpm]
    ELSE [p EXCEPT !.pc = "built2", !.out2 = out, !.bpm = bpm]

CanInvoke(name) == pb.pc \in {"start", "built1"} /\ pb.builder = name

\* EnhancedCoralProtocolAgent.processRequest
ProcessRequest ==
  /\ CanInvoke("generateTherapeuticPrompt")
  /\ LET elements == extractTherapeuticElements(pb.userText)
         out == Returned(generateTherapeuticPrompt(pb.userText, pb.config, elements))
         p == [pb EXCEPT !.promptsGenerated = @ + 1]
     IN pb' = Invoked(p, out,
                Converted(TempoTruthy(pb.config.tempo), Therapeutic_bpm(pb.config.tempo)))
  /\ UNCHANGED promptRest

OptimizePrompt ==
  /\ CanInvoke("optimizePrompt")
  /\ pb' = Invoked(pb, Returned(optimizePrompt(pb.userText, pb.config)),
             Converted(TempoTruthy(pb.config.tempo) /\ pb.config.tempo.type = "string",
                       ToString(ElevenLabsOnly_convertTempoToBPM(pb.config.tempo))))
  /\ UNCHANGED promptRest

OptimizePromptForElevenLabs ==
  /\ CanInvoke("optimizePromptForElevenLabs")
  /\ pb' = Invoked(pb, Returned(optimizePromptForElevenLabs(pb.userText, pb.config)),
             Converted(TempoTruthy(pb.config.tempo) /\ pb.config.tempo.type = "string",
                       ToString(ElevenLabs_convertTempoToBPM(pb.config.tempo))))
  /\ UNCHANGED promptRest

CoralProcessRequest ==
  /\ CanInvoke("CoralProtocolAgent.processRequest")
  /\ pb' = Invoked(pb,
             Coral_processRequest(pb.userText, pb.config, pb.isRegistered, pb.clock), "-")
  /\ UNCHANGED promptRest

\* CoralProtocolAgent.register
CoralRegister ==
  /\ pb.pc \in {"start", "built1"}
  /\ pb.builder = "CoralProtocolAgent.processRequest"
  /\ ~pb.isRegistered
  /\ pb' = [pb EXCEPT !.isRegistered = TRUE]
  /\ UNCHANGED promptRest

GenerateEnhancedMusicConfig ==
  /\ CanInvoke("generateEnhancedMusic")
  /\ pb' = Invoked(pb, Returned(Enhanced_serviceConfig(pb.config)),
             ToString(convertTempoToBPM(pb.config.tempo)))
  /\ UNCHANGED promptRest

\* time passes (Date.now() advances)
Tick ==
  /\ pb.pc \in {"start", "built1"}
  /\ pb.clock < MaxClock
  /\ pb' = [pb EXCEPT !.clock = @ + 1]
  /\ UNCHANGED promptRest

Next_Prompt ==
  \/ ProcessRequest
  \/ OptimizePrompt
  \/ OptimizePromptForElevenLabs
  \/ CoralProcessRequest
  \/ CoralRegister
  \/ GenerateEnhancedMusicConfig
  \/ Tick

(***************************************************************************)
(* Properties of the prompt builders (checked under PromptSpec)            *)
(***************************************************************************)
\* the BPM of the specified lookup table for a tempo
TableBpm(tempo) ==
  IF tempo.type = "string" /\ tempo.text = "slow" THEN "70"
  ELSE IF tempo.type = "string" /\ tempo.text = "medium" THEN "90"
  ELSE IF tempo.type = "string" /\ tempo.text = "fast" THEN "110"
  ELSE "80"

\* C17: every tempo-to-BPM conversion of a descriptive or absent tempo gives
\* 70 for slow, 90 for medium, 110 for fast and 80 for anything else.
C17_TempoTable ==
  (pb.pc \in {"built1", "built2"} /\ pb.bpm # "-" /\ pb.config.tempo.type # "number")
    => pb.bpm = TableBpm(pb.config.tempo)

\* the place of a clause kind in the specified order, 0 for other kinds
ClauseRank(kind) ==
  CASE kind = "base" -> 1
    [] kind = "duration" -> 2
    [] kind = "style" -> 3
    [] kind = "mood" -> 4
    [] kind = "tempo" -> 5
    [] kind = "instruments" -> 6
    [] kind = "binaural" -> 7
    [] kind = "quality" -> 8
    [] OTHER -> 0

InClaimedOrder(clauses) ==
  \A i, j \in 1..Len(clauses) :
    (i < j /\ ClauseRank(clauses[i].kind) # 0 /\ ClauseRank(clauses[j].kind) # 0)
      => ClauseRank(clauses[i].kind) < ClauseRank(clauses[j].kind)

\* C18: a built prompt has its clauses in the order base, duration, style,
\* mood, tempo, instruments, binaural, has a binaural clause only when
\* binaural is true and a frequency is set, and ends with the quality
\* qualifier.
C18_ClauseOrder ==
  (pb.pc \in {"built1", "built2"} /\ pb.builder \in PromptBuilders
     /\ pb.out1.status = "returned")
    => /\ InClaimedOrder(pb.out1.clauses)
       /\ pb.out1.clauses[Len(pb.out1.clauses)].kind = "quality"
       /\ (\E i \in 1..Len(pb.out1.clauses) : pb.out1.clauses[i].kind = "binaural")
            => (pb.config.binaural /\ pb.config.frequency # 0)

\* C19: two invocations of a prompt builder with the same user text and
\* config give the same result, whatever the agent state and the time.
C19_Deterministic ==
  (pb.pc = "built2" /\ pb.builder \in PromptBuilders) => pb.out1 = pb.out2

(***************************************************************************)
(* WAV encoding: bufferToBlob of DiffRhythmProvider, AudioCraftProvider    *)
(* and ElevenLabsProvider. The file is the byte sequence the DataView      *)
(* calls write; the header is its first 44 bytes.                          *)
(***************************************************************************)
MaxFrames == 5
MaxChannels == 2

WavEncoders == {"DiffRhythmProvider", "AudioCraftProvider", "ElevenLabsProvider"}

\* buffer.length of the AudioBuffers encoded: a few frames, and whole seconds
\* of audio up to the longest provider maximum
FrameCounts(sampleRate) ==
  (0..MaxFrames)
    \cup {sampleRate * seconds : seconds \in {1, AudioCraft_maxDuration, ElevenLabs_maxDuration}}

AudioBuffers ==
  UNION {[numberOfChannels : 1..MaxChannels, length : FrameCounts(r), sampleRate : {r}]
           : r \in SampleRates}

\* string.charCodeAt(i) for the characters of the chunk tags
charCodeAt(c) ==
  CASE c = "R" -> 82 [] c = "I" -> 73 [] c = "F" -> 70 [] c = "W" -> 87
    [] c = "A" -> 65 [] c = "V" -> 86 [] c = "E" -> 69 [] c = "f" -> 102
    [] c = "m" -> 109 [] c = "t" -> 116 [] c = " " -> 32 [] c = "d" -> 100
    [] c = "a" -> 97

\* writeString(offset, string): one setUint8 per character
writeString(chars) == [i \in 1..Len(chars) |-> charCodeAt(chars[i]) % 256]

setUint32_BigEndian(value) ==
  <<(value \div 16777216) % 256, (value \div 65536) % 256, (value \div 256) % 256,
    value % 256>>

\* view.setUint32(offset, value, true): the value modulo 2^32 as four bytes,
\* least significant first (byte k is the value's k-th base-256 digit)
setUint32(value) ==
  <<value % 256, (value \div 256) % 256, (value \div 65536) % 256,
    (value \div 16777216) % 256>>

\* view.setUint16(offset, value, true): the value modulo 2^16 as two bytes
setUint16(value) == <<value % 256, (value \div 256) % 256>>

\* the 44 header bytes in offset order, given the three computed sizes
WavHeaderBytes(riffSize, numberOfChannels, sampleRate, dataSize) ==
  writeString(<<"R", "I", "F", "F">>)
  \o setUint32(riffSize)
  \o writeString(<<"W", "A", "V", "E">>)
  \o writeString(<<"f", "m", "t", " ">>)
  \o setUint32(16)
  \o setUint16(1)
  \o setUint16(numberOfChannels)
  \o setUint32(sampleRate)
  \o setUint32(sampleRate * numberOfChannels * 2)
  \o setUint16(numberOfChannels * 2)
  \o setUint16(16)
  \o writeString(<<"d", "a", "t", "a">>)
  \o setUint32(dataSize)

WavFile(byteLength, header, endOffset) ==
  [byteLength |-> byteLength, header |-> header, endOffset |-> endOffset]

NoWavFile == WavFile(0, <<>>, 0)

\* DiffRhythmProvider.bufferToBlob and AudioCraftProvider.bufferToBlob
DiffRhythm_bufferToBlob(buffer) ==
  LET numberOfChannels == buffer.numberOfChannels
      sampleRate == buffer.sampleRate
      length == buffer.length
  IN WavFile(44 + length * numberOfChannels * 2,
             WavHeaderBytes(36 + length * numberOfChannels * 2, numberOfChannels,
                            sampleRate, length * numberOfChannels * 2),
             44 + 2 * length * numberOfChannels)

\* ElevenLabsProvider.bufferToBlob: `length` is the payload size in bytes
ElevenLabs_bufferToBlob(buffer) ==
  LET numberOfChannels == buffer.numberOfChannels
      length == buffer.length * numberOfChannels * 2
  IN WavFile(44 + length,
             WavHeaderBytes(36 + length, numberOfChannels, buffer.sampleRate, length),
             44 + 2 * buffer.length * numberOfChannels)

WavInputs ==
  [pc : {"start"}, encoder : WavEncoders, buffer : AudioBuffers, file : {NoWavFile}]

wavRest == <<svcVars, pcall, hc, gw, pb, agentVars>>

DiffRhythmBufferToBlob ==
  /\ wav.pc = "start" /\ wav.encoder = "DiffRhythmProvider"
  /\ wav' = [wav EXCEPT !.pc = "done", !.file = DiffRhythm_bufferToBlob(wav.buffer)]
  /\ UNCHANGED wavRest

AudioCraftBufferToBlob ==
  /\ wav.pc = "start" /\ wav.encoder = "AudioCraftProvider"
  /\ wav' = [wav EXCEPT !.pc = "done", !.file = DiffRhythm_bufferToBlob(wav.buffer)]
  /\ UNCHANGED wavRest

ElevenLabsBufferToBlob ==
  /\ wav.pc = "start" /\ wav.encoder = "ElevenLabsProvider"
  /\ wav' = [wav EXCEPT !.pc = "done", !.file = ElevenLabs_bufferToBlob(wav.buffer)]
  /\ UNCHANGED wavRest

Next_Wav ==
  \/ DiffRhythmBufferToBlob
  \/ AudioCraftBufferToBlob
  \/ ElevenLabsBufferToBlob

(***************************************************************************)
(* Properties of the WAV encoding (checked under WavSpec)                  *)
(***************************************************************************)
\* a little-endian unsigned field read back from the header at a byte offset
Uint32At(bytes, offset) ==
  bytes[offset + 1] + 256 * bytes[offset + 2] + 65536 * bytes[offset + 3]
    + 16777216 * bytes[offset + 4]

Uint16At(bytes, offset) == bytes[offset + 1] + 256 * bytes[offset + 2]

\* C20: the WAV file of a buffer of L frames, C channels and rate R has
\* 44 + L*C*2 bytes, RIFF size 36 + L*C*2, data size L*C*2, format tag 1,
\* C channels, sample rate R, byte rate R*C*2, block align C*2 and 16 bits
\* per sample.
C20_WavHeaderConsistent ==
  wav.pc = "done" =>
    LET L == wav.buffer.length
        C == wav.buffer.numberOfChannels
        R == wav.buffer.sampleRate
        h == wav.file.header
    IN /\ wav.file.byteLength = 44 + L * C * 2
       /\ Len(h) = 44
       /\ Uint32At(h, 4) = 36 + L * C * 2
       /\ Uint32At(h, 40) = L * C * 2
       /\ Uint16At(h, 20) = 1
       /\ Uint16At(h, 22) = C
       /\ Uint32At(h, 24) = R
       /\ Uint32At(h, 28) = R * C * 2
       /\ Uint16At(h, 32) = C * 2
       /\ Uint16At(h, 34) = 16

\* five minutes of stereo audio have been encoded
C20_Witness ==
  /\ wav.pc = "done"
  /\ wav.buffer.numberOfChannels = 2
  /\ wav.buffer.length = wav.buffer.sampleRate * ElevenLabs_maxDuration
  /\ wav.file.byteLength > 44

(***************************************************************************)
(* EnhancedCoralProtocolAgent.receiveHandoff (the prompt agent's handler   *)
(* for handoff messages).                                                  *)
(***************************************************************************)
\* handoff.handoffType: the four types of CoralHandoffMessage and one that is
\* none of them
HandoffTypes ==
  {"prompt-to-music", "music-to-export", "error-recovery", "status-update", "unknown-type"}

PayloadFields == {"userRequest", "musicConfig", "error"}

\* handoff.payload: absent, or an object with some of the fields
Payloads == [present : BOOLEAN, fields : SUBSET PayloadFields]
              \ {[present |-> FALSE, fields |-> f] : f \in (SUBSET PayloadFields) \ {{}}}

HandoffResolved(value) == [status |-> "resolved", value |-> value]
HandoffRejected(message) == [status |-> "rejected", value |-> message]
HandoffPending == [status |-> "pending", value |-> "-"]

\* EnhancedCoralProtocolAgent.processRequest(payload.userRequest,
\* payload.musicConfig): userRequest.toLowerCase() and config.binaural throw
\* on undefined
Handoff_processRequest(payload) ==
  IF "userRequest" \notin payload.fields
    THEN HandoffRejected("TypeError: Cannot read properties of undefined (reading 'toLowerCase')")
  ELSE IF "musicConfig" \notin payload.fields
    THEN HandoffRejected("TypeError: Cannot read properties of undefined (reading 'binaural')")
  ELSE HandoffResolved("PromptGenerationResult")

\* EnhancedCoralProtocolAgent.generateFallbackPrompt: errorPayload is unused
generateFallbackPrompt(errorPayload) == HandoffResolved("fallback PromptGenerationResult")

receiveHandoff(handoffType, payload) ==
  CASE handoffType = "prompt-to-music" ->
         IF ~payload.present
           THEN HandoffRejected("TypeError: Cannot read properties of undefined (reading 'userRequest')")
           ELSE Handoff_processRequest(payload)
    [] handoffType = "error-recovery" -> generateFallbackPrompt(payload)
    [] handoffType = "status-update" -> HandoffResolved("detailed status")
    [] OTHER -> HandoffRejected("Error: Unsupported handoff type: " \o handoffType)

HandoffInputs ==
  [pc : {"start"}, handoffType : HandoffTypes, payload : Payloads,
   isRegistered : {FALSE}, promptsGenerated : {0}, result : {HandoffPending}]

handoffRest == <<svcVars, pcall, hc, gw, pb, wav, bus, ea, mp>>

\* EnhancedCoralProtocolAgent.register
PromptAgentRegister ==
  /\ ho.pc \in {"start", "done"}
  /\ ~ho.isRegistered
  /\ ho' = [ho EXCEPT !.isRegistered = TRUE]
  /\ UNCHANGED handoffRest

\* receiveHandoff runs to its end: no await inside it yields before it settles
ReceiveHandoff ==
  /\ ho.pc = "start"
  /\ ho' = [ho EXCEPT
              !.pc = "done",
              !.promptsGenerated =
                 IF ho.handoffType = "prompt-to-music" /\ ho.payload.present
                   THEN @ + 1 ELSE @,
              !.result = receiveHandoff(ho.handoffType, ho.payload)]
  /\ UNCHANGED handoffRest

Next_Handoff ==
  \/ PromptAgentRegister
  \/ ReceiveHandoff

(***************************************************************************)
(* Properties of receiveHandoff (checked under HandoffSpec)                *)
(***************************************************************************)
\* a handoff whose type is not handled, or whose payload lacks what its type
\* needs: the request and config for 'prompt-to-music', the error information
\* for 'error-recovery'
Malformed(handoffType, payload) ==
  \/ handoffType \notin {"prompt-to-music", "error-recovery", "status-update"}
  \/ handoffType = "prompt-to-music"
       /\ ~({"userRequest", "musicConfig"} \subseteq payload.fields)
  \/ handoffType = "error-recovery" /\ "error" \notin payload.fields

\* C22: receiveHandoff rejects every malformed handoff message and never
\* resolves one.
C22_MalformedHandoffRejected ==
  (ho.pc = "done" /\ Malformed(ho.handoffType, ho.payload))
    => ho.result.status = "rejected"

(***************************************************************************)
(* CoralMessageBus: agent registry, sendMessage / sendHandoff, bus events  *)
(* and checkAgentHealth, with the two agents that register on it           *)
(* (EnhancedCoralProtocolAgent, EnhancedMusicGenerationAgent).             *)
(***************************************************************************)
MaxRegistryOps == 2
MaxMessages == 1

AgentIds == {"prompt-agent", "music-agent"}
MsgIds == 1..MaxMessages

\* message.type values with a receiveHandoff / processRequest handler on the
\* agents, and one ('status') that falls to the absent handleMessage
MessageTypes == {"handoff", "request", "status"}

BusApis == {"sendMessage", "sendHandoff"}

\* a MessageBusEvent; msg is 0 for registry events
BusEvent(type, agentId, msg) == [type |-> type, agentId |-> agentId, msg |-> msg]

\* CoralProtocolError(message, code, agentId, correlationId) and other errors
BusError(name, code) == [name |-> name, code |-> code]
NoBusError == BusError("-", "-")

IdleMessage ==
  [pc |-> "idle", api |-> "-", type |-> "-", fromAgent |-> "-", toAgent |-> "-",
   registeredAtSend |-> FALSE, handlerCalls |-> 0, handlerThrew |-> FALSE,
   result |-> "pending",
   error |-> NoBusError]

IdleHealthCall ==
  [pc |-> "idle", agentId |-> "-", registeredAtCall |-> FALSE,
   agentHealth |-> "-", result |-> "-"]

Init_Bus ==
  bus = [pc |-> "running",
         agents |-> [a \in AgentIds |-> FALSE],
         isRegistered |-> [a \in AgentIds |-> FALSE],
         registryOps |-> 0,
         events |-> <<>>,
         msgs |-> [m \in MsgIds |-> IdleMessage],
         health |-> IdleHealthCall]

busRest == <<svcVars, pcall, hc, gw, pb, wav, ho, ea, mp>>

\* emitEvent: listeners run synchronously and their errors are caught
emitEvent(b, event) == [b EXCEPT !.events = Append(@, event)]

\* CoralMessageBus.registerAgent (called by the agents' constructors)
RegisterAgent(agentId) ==
  /\ bus.registryOps < MaxRegistryOps
  /\ bus' = emitEvent([bus EXCEPT !.agents[agentId] = TRUE, !.registryOps = @ + 1],
                      BusEvent("agent-registered", agentId, 0))
  /\ UNCHANGED busRest

\* CoralMessageBus.unregisterAgent
UnregisterAgent(agentId) ==
  /\ bus.registryOps < MaxRegistryOps
  /\ bus' = emitEvent([bus EXCEPT !.agents[agentId] = FALSE, !.registryOps = @ + 1],
                      BusEvent("agent-unregistered", agentId, 0))
  /\ UNCHANGED busRest

\* the agent's own register() completes: this.isRegistered = true
AgentRegister(agentId) ==
  /\ ~bus.isRegistered[agentId]
  /\ bus' = [bus EXCEPT !.isRegistered[agentId] = TRUE]
  /\ UNCHANGED busRest

\* the handler sendMessage calls for a message type; "-" when the optional
\* call finds no such method on the agent
HandlerFor(type) ==
  CASE type = "handoff" -> "receiveHandoff"
    [] type = "request" -> "processRequest"
    [] OTHER -> "-"

sendMessage_EmitFirst(b, m, api, type, fromAgent, toAgent) ==
  LET sent == emitEvent(b, BusEvent("message-sent", fromAgent, m))
      msg == [IdleMessage EXCEPT !.api = api, !.type = type, !.fromAgent = fromAgent,
                !.toAgent = toAgent, !.registeredAtSend = b.agents[toAgent]]
  IN IF ~b.agents[toAgent]
       THEN [sent EXCEPT !.msgs[m] =
               [msg EXCEPT !.pc = "done", !.result = "rejected",
                           !.error = BusError("CoralProtocolError", "AGENT_NOT_FOUND")]]
       ELSE [sent EXCEPT !.msgs[m] =
               [msg EXCEPT !.pc = "handler",
                           !.handlerCalls = IF HandlerFor(type) = "-" THEN 0 ELSE 1]]

\* sendMessage up to its await: target lookup, AGENT_NOT_FOUND, message-sent,
\* the handler call (lines 355-384); sendHandoff enters it directly
sendMessage(b, m, api, type, fromAgent, toAgent) ==
  LET msg == [IdleMessage EXCEPT !.api = api, !.type = type, !.fromAgent = fromAgent,
                !.toAgent = toAgent, !.registeredAtSend = b.agents[toAgent]]
  IN IF ~b.agents[toAgent]
       THEN [b EXCEPT !.msgs[m] =
               [msg EXCEPT !.pc = "done", !.result = "rejected",
                           !.error = BusError("CoralProtocolError", "AGENT_NOT_FOUND")]]
       ELSE [emitEvent(b, BusEvent("message-sent", fromAgent, m)) EXCEPT !.msgs[m] =
               [msg EXCEPT !.pc = "handler",
                           !.handlerCalls = IF HandlerFor(type) = "-" THEN 0 ELSE 1]]

SendMessage(m, type, fromAgent, toAgent) ==
  /\ bus.msgs[m].pc = "idle"
  /\ bus' = sendMessage(bus, m, "sendMessage", type, fromAgent, toAgent)
  /\ UNCHANGED busRest

\* a CoralHandoffMessage has type 'handoff'
SendHandoff(m, fromAgent, toAgent) ==
  /\ bus.msgs[m].pc = "idle"
  /\ bus' = sendMessage(bus, m, "sendHandoff", "handoff", fromAgent, toAgent)
  /\ UNCHANGED busRest

handlerThrew_Swallowed(b, m) ==
  [emitEvent(b, BusEvent("message-received", b.msgs[m].toAgent, m)) EXCEPT
     !.msgs[m].pc = IF b.msgs[m].api = "sendHandoff" THEN "afterSend" ELSE "done",
     !.msgs[m].result = IF b.msgs[m].api = "sendHandoff" THEN "pending" ELSE "resolved"]

\* the catch of sendMessage: error event, rethrow (lines 388-397); the
\* rejection passes through sendHandoff's await
handlerThrew(b, m) ==
  [emitEvent(b, BusEvent("error", b.msgs[m].toAgent, m)) EXCEPT
     !.msgs[m].pc = "done", !.msgs[m].result = "rejected",
     !.msgs[m].error = BusError("Error", "handler")]

\* the handler's promise fulfilled: message-received, return (lines 386-392)
handlerReturned(b, m) ==
  [emitEvent(b, BusEvent("message-received", b.msgs[m].toAgent, m)) EXCEPT
     !.msgs[m].pc = IF b.msgs[m].api = "sendHandoff" THEN "afterSend" ELSE "done",
     !.msgs[m].result = IF b.msgs[m].api = "sendHandoff" THEN "pending" ELSE "resolved"]

\* the awaited handler settles; an absent handler yields undefined
HandlerSettled(m, throws) ==
  /\ bus.msgs[m].pc = "handler"
  /\ throws => bus.msgs[m].handlerCalls > 0
  /\ bus' = IF throws
              THEN handlerThrew([bus EXCEPT !.msgs[m].handlerThrew = TRUE], m)
              ELSE handlerReturned(bus, m)
  /\ UNCHANGED busRest

\* sendHandoff after its await: handoff-completed, return (lines 409-418)
HandoffCompleted(m) ==
  /\ bus.msgs[m].pc = "afterSend"
  /\ bus' = [emitEvent(bus, BusEvent("handoff-completed", bus.msgs[m].fromAgent, m))
               EXCEPT !.msgs[m].pc = "done", !.msgs[m].result = "resolved"]
  /\ UNCHANGED busRest

\* EnhancedCoralProtocolAgent.checkHealth / EnhancedMusicGenerationAgent
\* .checkHealth: this.isRegistered && messageBus.isAgentRegistered(agentId)
Agent_checkHealth(b, agentId) ==
  IF b.isRegistered[agentId] /\ b.agents[agentId] THEN "true" ELSE "false"

\* `return await agent.checkHealth?.() || true` and the catch
checkAgentHealth_settled(agentHealth) ==
  IF agentHealth = "throws" THEN "false"
  ELSE IF agentHealth = "true" THEN agentHealth
  ELSE "true"   \* `false || true`

\* checkAgentHealth up to its await: lookup, false for an unknown id, the
\* agent's checkHealth called (its body runs at the call)
CheckAgentHealth(agentId, throws) ==
  /\ bus.health.pc = "idle"
  /\ bus' = [bus EXCEPT !.health =
       IF ~bus.agents[agentId]
         THEN [pc |-> "done", agentId |-> agentId, registeredAtCall |-> FALSE,
               agentHealth |-> "-", result |-> "false"]
         ELSE [pc |-> "awaiting", agentId |-> agentId, registeredAtCall |-> TRUE,
               agentHealth |-> IF throws THEN "throws" ELSE Agent_checkHealth(bus, agentId),
               result |-> "-"]]
  /\ UNCHANGED busRest

AgentHealthSettled ==
  /\ bus.health.pc = "awaiting"
  /\ bus' = [bus EXCEPT !.health.pc = "done",
                        !.health.result = checkAgentHealth_settled(bus.health.agentHealth)]
  /\ UNCHANGED busRest

\* registry and messaging
Next_Bus ==
  \/ \E a \in AgentIds : RegisterAgent(a)
  \/ \E a \in AgentIds : UnregisterAgent(a)
  \/ \E m \in MsgIds, t \in MessageTypes, f, a \in AgentIds : SendMessage(m, t, f, a)
  \/ \E m \in MsgIds, f, a \in AgentIds : SendHandoff(m, f, a)
  \/ \E m \in MsgIds, t \in BOOLEAN : HandlerSettled(m, t)
  \/ \E m \in MsgIds : HandoffCompleted(m)

\* registry, the agents' register() and health checks
Next_BusHealth ==
  \/ \E a \in AgentIds : RegisterAgent(a)
  \/ \E a \in AgentIds : UnregisterAgent(a)
  \/ \E a \in AgentIds : AgentRegister(a)
  \/ \E a \in AgentIds, t \in BOOLEAN : CheckAgentHealth(a, t)
  \/ AgentHealthSettled

(***************************************************************************)
(* Properties of the message bus (checked under BusSpec, BusHealthSpec)     *)
(***************************************************************************)
\* C24: checkAgentHealth(id) is false for an id not registered on the bus,
\* and for a registered agent is the outcome of the agent's own checkHealth
\* (false when that reports false or throws).
C24_HealthMirrorsAgent ==
  bus.health.pc = "done" =>
    bus.health.result
      = IF ~bus.health.registeredAtCall THEN "false"
        ELSE IF bus.health.agentHealth = "true" THEN "true" ELSE "false"

\* the types of the bus events that carry message m, in emission order
EventsOf(m) ==
  LET own == SelectSeq(bus.events, LAMBDA e : e.msg = m)
  IN [i \in 1..Len(own) |-> own[i].type]

\* C25: a sendHandoff to a registered target emits message-sent, then
\* message-received once the handler returned, then handoff-completed, and
\* calls the handler once; if the handler throws it emits message-sent then
\* error only, and the handler's error reaches the sender.
C25_HandoffEventOrder ==
  \A m \in MsgIds :
    (bus.msgs[m].api = "sendHandoff" /\ bus.msgs[m].registeredAtSend) =>
      /\ bus.msgs[m].handlerCalls = 1
      /\ bus.msgs[m].pc = "handler" => EventsOf(m) = <<"message-sent">>
      /\ bus.msgs[m].pc = "afterSend" => EventsOf(m) = <<"message-sent", "message-received">>
      /\ (bus.msgs[m].pc = "done" /\ bus.msgs[m].result = "resolved")
           => EventsOf(m) = <<"message-sent", "message-received", "handoff-completed">>
      /\ bus.msgs[m].handlerThrew
           => /\ bus.msgs[m].pc = "done" /\ bus.msgs[m].result = "rejected"
              /\ EventsOf(m) = <<"message-sent", "error">>
              /\ bus.msgs[m].error = BusError("Error", "handler")
      /\ bus.msgs[m].result = "rejected" => bus.msgs[m].handlerThrew

\* the handler of a handoff to a registered target threw
C25_Witness ==
  \E m \in MsgIds :
    /\ bus.msgs[m].api = "sendHandoff" /\ bus.msgs[m].registeredAtSend
    /\ bus.msgs[m].pc = "done" /\ bus.msgs[m].handlerThrew
    /\ bus.registryOps = MaxRegistryOps

\* C26: a sendMessage to an id that is not registered when it is sent is
\* rejected with a CoralProtocolError of code AGENT_NOT_FOUND, emits no event
\* and calls no handler.
C26_UnknownTargetRejected ==
  \A m \in MsgIds :
    (bus.msgs[m].pc # "idle" /\ ~bus.msgs[m].registeredAtSend) =>
      /\ bus.msgs[m].pc = "done" /\ bus.msgs[m].result = "rejected"
      /\ bus.msgs[m].error = BusError("CoralProtocolError", "AGENT_NOT_FOUND")
      /\ EventsOf(m) = <<>>
      /\ bus.msgs[m].handlerCalls = 0

\* a message to an agent that was registered and then unregistered
C26_Witness ==
  \E m \in MsgIds :
    /\ bus.msgs[m].pc = "done" /\ ~bus.msgs[m].registeredAtSend
    /\ bus.msgs[m].api = "sendMessage"
    /\ \E i \in 1..Len(bus.events) :
         /\ bus.events[i].type = "agent-unregistered"
         /\ bus.events[i].agentId = bus.msgs[m].toAgent
    /\ \E i \in 1..Len(bus.events) :
         /\ bus.events[i].type = "agent-registered"
         /\ bus.events[i].agentId = bus.msgs[m].toAgent

(***************************************************************************)
(* EnhancedMusicGenerationAgent.generateEnhancedMusic on one agent, with   *)
(* the agent's own MusicGenerationService ('diffrhythm' and 'audiocraft'   *)
(* registered by initializeProviders).  Calls interleave at their awaits.  *)
(***************************************************************************)
MaxAgentCalls == 2

AgentCallIds == 1..MaxAgentCalls

\* request.config: duration in minutes, number of instruments, binaural
AgentConfigs ==
  [duration : {10, 20}, instruments : {1, 3}, binaural : BOOLEAN]

\* the providers initializeProviders adds to the agent's service
AgentProviders == {"diffrhythm", "audiocraft"}

selectOptimalProvider(config) ==
  IF config.duration > 15 \/ config.instruments > 2 \/ config.binaural
    THEN "diffrhythm"
    ELSE "audiocraft"

\* One generateEnhancedMusic call.  phase tells which musicService
\* .generateMusic call it is in (the normal one or generateFallbackMusic's),
\* pc the await that call is suspended at, local the provider const of its
\* current try block.  selected, first (the provider of the call's first
\* provider operation) and producedBy are history fields.
IdleAgentCall ==
  [pc |-> "idle", phase |-> "-", selected |-> "-", local |-> "-", first |-> "-",
   producedBy |-> "-", result |-> "pending", providerUsed |-> "-"]

Init_Agent ==
  ea = [pc |-> "running",
        primaryProvider |-> "diffrhythm",
        tracksGenerated |-> 0,
        calls |-> [c \in AgentCallIds |-> IdleAgentCall]]

agentRest == <<svcVars, pcall, hc, gw, pb, wav, ho, bus, mp>>

Agent_setPreferredProvider_Ignored(e, providerName) == e

\* MusicGenerationService.setPreferredProvider on the agent's service
Agent_setPreferredProvider(e, providerName) ==
  IF providerName \in AgentProviders
    THEN [e EXCEPT !.primaryProvider = providerName]
    ELSE e

\* musicService.generateMusic up to its first await: the primary provider is
\* read from the registry and its checkHealth called
Service_start(e, c, phase) ==
  [e EXCEPT !.calls[c].pc = "primaryHealth",
            !.calls[c].phase = phase,
            !.calls[c].local = e.primaryProvider,
            !.calls[c].first = IF @ = "-" THEN e.primaryProvider ELSE @]

\* the fallback block of musicService.generateMusic is entered
Service_enterFallback(e, c) ==
  [e EXCEPT !.calls[c].pc = "fallbackHealth", !.calls[c].local = fallbackProvider]

\* generateFallbackMusic up to its await
generateFallbackMusic(e, c) ==
  Service_start(Agent_setPreferredProvider(e, "audiocraft"), c, "fallback")

\* musicService.generateMusic resolved with the audio of e.calls[c].local:
\* the normal path runs updateAnalytics and answers providerUsed = the
\* selected provider, generateFallbackMusic answers 'audiocraft'
Service_resolved(e, c) ==
  IF e.calls[c].phase = "normal"
    THEN [e EXCEPT !.tracksGenerated = @ + 1,
                   !.calls[c].pc = "done", !.calls[c].result = "resolved",
                   !.calls[c].producedBy = e.calls[c].local,
                   !.calls[c].providerUsed = e.calls[c].selected]
    ELSE [e EXCEPT !.calls[c].pc = "done", !.calls[c].result = "resolved",
                   !.calls[c].producedBy = e.calls[c].local,
                   !.calls[c].providerUsed = "audiocraft"]

\* musicService.generateMusic threw 'All ... unavailable': the catch of
\* generateEnhancedMusic calls generateFallbackMusic, whose own catch throws
Service_threw(e, c) ==
  IF e.calls[c].phase = "normal"
    THEN generateFallbackMusic(e, c)
    ELSE [e EXCEPT !.calls[c].pc = "done", !.calls[c].result = "rejected"]

\* generateEnhancedMusic up to its await: select, setPreferredProvider,
\* providerStats, musicService.generateMusic
GenerateEnhancedMusic(c, config) ==
  /\ ea.calls[c].pc = "idle"
  /\ LET selectedProvider == selectOptimalProvider(config)
         e == [ea EXCEPT !.calls[c].selected = selectedProvider]
     IN ea' = Service_start(Agent_setPreferredProvider(e, selectedProvider), c, "normal")
  /\ UNCHANGED agentRest

AgentPrimaryHealthSettled(c, o) ==
  /\ ea.calls[c].pc = "primaryHealth"
  /\ ea' = IF o = "true" THEN [ea EXCEPT !.calls[c].pc = "primaryGen"]
           ELSE Service_enterFallback(ea, c)
  /\ UNCHANGED agentRest

AgentPrimaryGenSettled(c, o) ==
  /\ ea.calls[c].pc = "primaryGen"
  /\ ea' = IF o = "resolve" THEN Service_resolved(ea, c)
           ELSE Service_enterFallback(ea, c)
  /\ UNCHANGED agentRest

AgentFallbackHealthSettled(c, o) ==
  /\ ea.calls[c].pc = "fallbackHealth"
  /\ ea' = IF o = "true" THEN [ea EXCEPT !.calls[c].pc = "fallbackGen"]
           ELSE Service_threw(ea, c)
  /\ UNCHANGED agentRest

AgentFallbackGenSettled(c, o) ==
  /\ ea.calls[c].pc = "fallbackGen"
  /\ ea' = IF o = "resolve" THEN Service_resolved(ea, c) ELSE Service_threw(ea, c)
  /\ UNCHANGED agentRest

Next_Agent ==
  \/ \E c \in AgentCallIds, cfg \in AgentConfigs : GenerateEnhancedMusic(c, cfg)
  \/ \E c \in AgentCallIds, o \in HealthOutcomes : AgentPrimaryHealthSettled(c, o)
  \/ \E c \in AgentCallIds, o \in GenOutcomes : AgentPrimaryGenSettled(c, o)
  \/ \E c \in AgentCallIds, o \in HealthOutcomes : AgentFallbackHealthSettled(c, o)
  \/ \E c \in AgentCallIds, o \in GenOutcomes : AgentFallbackGenSettled(c, o)

(***************************************************************************)
(* Properties of generateEnhancedMusic (checked under AgentSpec)           *)
(***************************************************************************)
ResolvedCalls == {c \in AgentCallIds : ea.calls[c].result = "resolved"}

\* C23: analytics.tracksGenerated has grown by exactly the number of
\* generateEnhancedMusic calls that resolved, whichever path produced the
\* result.
C23_TracksCountResolved == ea.tracksGenerated = Cardinality(ResolvedCalls)

\* C27: the first provider operation of every generateEnhancedMusic call is
\* on the provider selectOptimalProvider chose for the call's own config,
\* whatever other interleaved calls do to the preferred provider.
C27_FirstAttemptOnSelected ==
  \A c \in AgentCallIds :
    ea.calls[c].pc # "idle" => ea.calls[c].first = ea.calls[c].selected

\* a call is at its primary provider's checkHealth on 'diffrhythm' while
\* another call's generateFallbackMusic has made 'audiocraft' the preference
C27_Witness ==
  \E c, other \in AgentCallIds :
    /\ c # other
    /\ ea.calls[c].pc = "primaryHealth" /\ ea.calls[c].phase = "normal"
    /\ ea.calls[c].first = "diffrhythm"
    /\ ea.calls[other].phase = "fallback"
    /\ ea.calls[other].selected = "diffrhythm"
    /\ ea.primaryProvider = "audiocraft"

\* C28: analytics.providerUsed of every response names the provider whose
\* generateMusic produced the returned audio.
C28_ProviderUsedIsProducer ==
  \A c \in AgentCallIds :
    ea.calls[c].result = "resolved" => ea.calls[c].providerUsed = ea.calls[c].producedBy

(***************************************************************************)
(* MusicPlayer inside ElevenLabsGenerator's music library: the parent      *)
(* owns the tracks list (refetched from the music_tracks table after every *)
(* save and delete), the player owns currentTrackIndex and isPlaying.      *)
(***************************************************************************)
MaxTracks == 3

TrackIds == 1..MaxTracks

\* the ids of a track list
TrackIdsOf(list) == {list[i] : i \in 1..Len(list)}

\* the music_tracks rows without the row whose id is trackId
WithoutTrack(list, trackId) == SelectSeq(list, LAMBDA id : id # trackId)

\* mounted: the parent renders the player only while musicTracks is
\* non-empty; db is the music_tracks table, newest first
Init_Player ==
  mp = [pc |-> "unmounted", db |-> <<>>, tracks |-> <<>>,
        currentTrackIndex |-> 0, isPlaying |-> FALSE]

playerRest == <<svcVars, pcall, hc, gw, pb, wav, ho, bus, ea>>

\* const currentTrack = tracks[currentTrackIndex] is not undefined
HasCurrentTrack(p) == p.currentTrackIndex < Len(p.tracks)

nextIndex(currentTrackIndex, length) == (currentTrackIndex + 1) % length

prevIndex(currentTrackIndex, length) ==
  IF currentTrackIndex = 0 THEN length - 1 ELSE currentTrackIndex - 1

handleNext(p) ==
  IF Len(p.tracks) = 0 THEN p
  ELSE [p EXCEPT !.currentTrackIndex = nextIndex(p.currentTrackIndex, Len(p.tracks)),
                 !.isPlaying = FALSE]

handlePrevious(p) ==
  IF Len(p.tracks) = 0 THEN p
  ELSE [p EXCEPT !.currentTrackIndex = prevIndex(p.currentTrackIndex, Len(p.tracks)),
                 !.isPlaying = FALSE]

\* the SkipForward button, enabled while tracks.length > 1
HandleNext ==
  /\ mp.pc = "mounted" /\ Len(mp.tracks) > 1
  /\ mp' = handleNext(mp)
  /\ UNCHANGED playerRest

\* the SkipBack button, enabled while tracks.length > 1
HandlePrevious ==
  /\ mp.pc = "mounted" /\ Len(mp.tracks) > 1
  /\ mp' = handlePrevious(mp)
  /\ UNCHANGED playerRest

\* a playlist row is clicked (the playlist is rendered while tracks.length > 1)
SelectTrack(index) ==
  /\ mp.pc = "mounted" /\ Len(mp.tracks) > 1
  /\ index < Len(mp.tracks)
  /\ mp' = [mp EXCEPT !.currentTrackIndex = index]
  /\ UNCHANGED playerRest

\* handlePlayPause; a WaveSurfer instance exists only for a current track
HandlePlayPause ==
  /\ mp.pc = "mounted" /\ HasCurrentTrack(mp)
  /\ mp' = [mp EXCEPT !.isPlaying = ~@]
  /\ UNCHANGED playerRest

\* WaveSurfer's 'finish' event of the playing track
TrackFinished ==
  /\ mp.pc = "mounted" /\ HasCurrentTrack(mp) /\ mp.isPlaying
  /\ mp' = handleNext([mp EXCEPT !.isPlaying = FALSE])
  /\ UNCHANGED playerRest

\* handleDeleteTrack and the parent's deleteMusicTrack up to its refetch
HandleDeleteTrack ==
  /\ mp.pc = "mounted" /\ HasCurrentTrack(mp)
  /\ mp' = [mp EXCEPT !.db = WithoutTrack(@, mp.tracks[mp.currentTrackIndex + 1])]
  /\ UNCHANGED playerRest

\* saveGeneratedTrack inserts a row up to its refetch
SaveGeneratedTrack(trackId) ==
  /\ trackId \notin TrackIdsOf(mp.db) \cup TrackIdsOf(mp.tracks)
  /\ mp' = [mp EXCEPT !.db = <<trackId>> \o @]
  /\ UNCHANGED playerRest

\* fetchMusicTracks settles: setMusicTracks(data); the parent mounts the
\* player (fresh state) when the list becomes non-empty and unmounts it when
\* the list becomes empty; a mounted player keeps its state
FetchMusicTracks ==
  /\ mp.tracks # mp.db
  /\ mp' = IF mp.db = <<>>
             THEN [mp EXCEPT !.pc = "unmounted", !.tracks = <<>>,
                             !.currentTrackIndex = 0, !.isPlaying = FALSE]
           ELSE IF mp.pc = "unmounted"
             THEN [mp EXCEPT !.pc = "mounted", !.tracks = mp.db]
           ELSE [mp EXCEPT !.tracks = mp.db]
  /\ UNCHANGED playerRest

Next_Player ==
  \/ HandleNext
  \/ HandlePrevious
  \/ \E index \in 0..(MaxTracks - 1) : SelectTrack(index)
  \/ HandlePlayPause
  \/ TrackFinished
  \/ HandleDeleteTrack
  \/ \E trackId \in TrackIds : SaveGeneratedTrack(trackId)
  \/ FetchMusicTracks

(***************************************************************************)
(* Properties of the player (checked under PlayerSpec)                     *)
(***************************************************************************)
\* C29: whenever tracks is non-empty, currentTrackIndex is a valid index
\* (0 <= currentTrackIndex < tracks.length), also after the parent removed
\* tracks; next and previous wrap around and undo each other.
C29_CurrentTrackExists ==
  Len(mp.tracks) > 0 =>
    /\ 0 <= mp.currentTrackIndex /\ mp.currentTrackIndex < Len(mp.tracks)
    /\ handlePrevious(handleNext(mp)).currentTrackIndex = mp.currentTrackIndex
    /\ handleNext(handlePrevious(mp)).currentTrackIndex = mp.currentTrackIndex

\* the part of C29 that the code keeps: on a valid index next and previous
\* stay in range and undo each other
C29_WrapInverse ==
  (Len(mp.tracks) > 0 /\ HasCurrentTrack(mp)) =>
    /\ HasCurrentTrack(handleNext(mp)) /\ HasCurrentTrack(handlePrevious(mp))
    /\ handlePrevious(handleNext(mp)).currentTrackIndex = mp.currentTrackIndex
    /\ handleNext(handlePrevious(mp)).currentTrackIndex = mp.currentTrackIndex

(***************************************************************************)
(* Specifications                                                          *)
(***************************************************************************)
Init_AgentsIdle ==
  ho = [pc |-> "idle"] /\ bus = [pc |-> "idle"] /\ ea = [pc |-> "idle"] /\ mp = [pc |-> "idle"]

Init_ExtIdle ==
  /\ hc = [pc |-> "idle"] /\ gw = [pc |-> "idle"] /\ pb = [pc |-> "idle"] /\ wav = [pc |-> "idle"]
  /\ Init_AgentsIdle

Init_Provider == Init_Service /\ pcall \in ProviderInputs /\ Init_ExtIdle

Next_Provider ==
  \/ DiffRhythmGenerate
  \/ AudioCraftSingle
  \/ AudioCraftSegmentDone
  \/ AudioCraftCombine
  \/ \E api \in ApiOutcomes : ElevenLabsGenerate(api)

ProviderSpec == Init_Provider /\ [][Next_Provider]_vars

Init_ProviderIdle ==
  pcall = [pc |-> "idle", provider |-> undefined, duration |-> 0, apiKey |-> FALSE,
           sampleRate |-> 0, audioContext |-> FALSE, segs |-> <<>>, result |-> Pending]

Init == Init_Service /\ Init_ProviderIdle /\ Init_ExtIdle

Next ==
  \/ \E n \in Names : AddProvider(n)
  \/ \E n \in Names : SetPreferredProvider(n)
  \/ \E c \in CallIds : GenerateMusic(c)
  \/ \E c \in CallIds, o \in HealthOutcomes : PrimaryHealthSettled(c, o)
  \/ \E c \in CallIds, o \in GenOutcomes : PrimaryGenSettled(c, o)
  \/ \E c \in CallIds, o \in HealthOutcomes : FallbackHealthSettled(c, o)
  \/ \E c \in CallIds, o \in GenOutcomes : FallbackGenSettled(c, o)

Spec == Init /\ [][Next]_vars

Init_Hosted ==
  /\ Init_Service /\ Init_ProviderIdle
  /\ hc \in HostedInputs
  /\ Init_AgentsIdle
  /\ gw = [pc |-> "idle"] /\ pb = [pc |-> "idle"] /\ wav = [pc |-> "idle"]

HostedSpec == Init_Hosted /\ [][Next_Hosted]_vars

Init_Gateway ==
  /\ Init_Service /\ Init_ProviderIdle
  /\ gw \in GatewayInputs
  /\ Init_AgentsIdle
  /\ hc = [pc |-> "idle"] /\ pb = [pc |-> "idle"] /\ wav = [pc |-> "idle"]

GatewaySpec == Init_Gateway /\ [][Next_Gateway]_vars

Init_Prompt ==
  /\ Init_Service /\ Init_ProviderIdle
  /\ pb \in PromptInputs
  /\ Init_AgentsIdle
  /\ hc = [pc |-> "idle"] /\ gw = [pc |-> "idle"] /\ wav = [pc |-> "idle"]

PromptSpec == Init_Prompt /\ [][Next_Prompt]_vars

Init_Wav ==
  /\ Init_Service /\ Init_ProviderIdle
  /\ wav \in WavInputs
  /\ Init_AgentsIdle
  /\ hc = [pc |-> "idle"] /\ gw = [pc |-> "idle"] /\ pb = [pc |-> "idle"]

WavSpec == Init_Wav /\ [][Next_Wav]_vars

Init_Handoff ==
  /\ Init_Service /\ Init_ProviderIdle
  /\ hc = [pc |-> "idle"] /\ gw = [pc |-> "idle"] /\ pb = [pc |-> "idle"] /\ wav = [pc |-> "idle"]
  /\ ho \in HandoffInputs
  /\ bus = [pc |-> "idle"] /\ ea = [pc |-> "idle"] /\ mp = [pc |-> "idle"]

HandoffSpec == Init_Handoff /\ [][Next_Handoff]_vars

Init_BusSpec ==
  /\ Init_Service /\ Init_ProviderIdle
  /\ hc = [pc |-> "idle"] /\ gw = [pc |-> "idle"] /\ pb = [pc |-> "idle"] /\ wav = [pc |-> "idle"]
  /\ Init_Bus
  /\ ho = [pc |-> "idle"] /\ ea = [pc |-> "idle"] /\ mp = [pc |-> "idle"]

BusSpec == Init_BusSpec /\ [][Next_Bus]_vars

BusHealthSpec == Init_BusSpec /\ [][Next_BusHealth]_vars

Init_AgentSpec ==
  /\ Init_Service /\ Init_ProviderIdle
  /\ hc = [pc |-> "idle"] /\ gw = [pc |-> "idle"] /\ pb = [pc |-> "idle"] /\ wav = [pc |-> "idle"]
  /\ Init_Agent
  /\ ho = [pc |-> "idle"] /\ bus = [pc |-> "idle"] /\ mp = [pc |-> "idle"]

AgentSpec == Init_AgentSpec /\ [][Next_Agent]_vars

Init_PlayerSpec ==
  /\ Init_Service /\ Init_ProviderIdle
  /\ hc = [pc |-> "idle"] /\ gw = [pc |-> "idle"] /\ pb = [pc |-> "idle"] /\ wav = [pc |-> "idle"]
  /\ Init_Player
  /\ ho = [pc |-> "idle"] /\ bus = [pc |-> "idle"] /\ ea = [pc |-> "idle"]

PlayerSpec == Init_PlayerSpec /\ [][Next_Player]_vars

====
